---- MODULE Spec2Model ----
(***************************************************************************)
(* TWAP aggregation engine of the BRICS Unit Basket servers.               *)
(*                                                                         *)
(* The repository holds several near-duplicate server files.  Each one is  *)
(* a deployment of the same core: a Price Store per instrument (an array   *)
(* of {t, v} observations filtered to a 5000 ms window on every push), an  *)
(* averaging function twap, and a GET /latest.json handler that fetches    *)
(* the feeds, pushes one observation per instrument and publishes a quote. *)
(*                                                                         *)
(* Two specifications are given.                                           *)
(*   SpecStore  - the Price Store functions store and twap, applied to     *)
(*                one store at clock values chosen by the environment.     *)
(*   SpecServer - the /latest.json handlers of the server files, with      *)
(*                concurrent requests interleaved at their await points.   *)
(***************************************************************************)
EXTENDS Integers, Sequences, FiniteSets, TLC

VARIABLES
  clock,        \* Date.now(), in ms
  ticks,        \* number of clock advances so far (bounds the run)
  history,      \* the Price Store under test (SpecStore)
  lastNow,      \* clock value read by the most recent store call
  npush,        \* number of store calls so far
  ret,          \* what the call made in the last step returned
  variant,      \* which server file is deployed (SpecServer)
  pc,           \* per request: where its /latest.json handler stands
  gold,         \* per request: the gold value its handler has awaited
  goldHistory,  \* Price Store of gold
  fxHistory,    \* Price Store of each currency of FX_LIST
  priceHistory, \* the single store of unit prices (unnamed/part_002)
  LAST_GOOD,    \* last known good feed values (server3.js, second server)
  outcome,      \* what the step just taken finished: the request whose
                \* handler ended, the response sent, the stores and candles
                \* its cycle touched, whether a feed call failed
  feedFailed,   \* per request in flight: a feed call of its cycle failed
  log,          \* per store: every observation ever pushed, in order
  candlesStore, \* per timeframe: the closed candles, oldest first
  currentCandle,\* per timeframe: the open candle, if any
  bucket,       \* per timeframe: the prices folded into the open candle
  nquotes,      \* number of prices delivered to the candle engine so far
  ohlc          \* what the /ohlc request made in the last step was answered

storeVars == <<history, lastNow, npush, ret>>
handlerVars == <<variant, pc, gold, goldHistory, fxHistory, priceHistory,
                 LAST_GOOD, feedFailed, log>>
serverVars == <<handlerVars, outcome>>
candleVars == <<candlesStore, currentCandle, bucket, nquotes>>
vars == <<clock, ticks, storeVars, serverVars, candleVars, ohlc>>

(***************************************************************************)
(* Bounds of the model.                                                    *)
(***************************************************************************)
MaxTicks == 3
MaxPush == 3
MaxReq == 2
MaxElapse == 1
MaxQuotes == 3

\* Clock advances offered to the environment: half a window, and one
\* millisecond more than a window.
Deltas == {2500, 5001}

\* Values pushed into the store under test, and fallbacks handed to twap.
PushValues == {10, 20, 30}
Fallbacks == {20, 1900}

(***************************************************************************)
(* Program constants.                                                      *)
(***************************************************************************)
TWAP_WINDOW_MS == 5000

(***************************************************************************)
(* JavaScript values.  A number is an exact fraction n/d in lowest terms   *)
(* (d > 0); the other kinds are the non-numbers the code can produce.      *)
(***************************************************************************)
RECURSIVE GCD(_, _)
GCD(a, b) ==
  IF b = 0 THEN a ELSE GCD(b, a % b)

Abs(x) ==
  IF x < 0 THEN -x ELSE x

Rat(n, d) ==
  LET g == GCD(Abs(n), d)
  IN  [k |-> "num", n |-> n \div g, d |-> d \div g]

Num(n) ==
  [k |-> "num", n |-> n, d |-> 1]

NaN ==
  [k |-> "nan", n |-> 0, d |-> 1]

Infinity ==
  [k |-> "inf", n |-> 1, d |-> 1]

undefined ==
  [k |-> "undefined", n |-> 0, d |-> 1]

null ==
  [k |-> "null", n |-> 0, d |-> 1]

\* ToNumber of the operands of + and /: null is 0, undefined is NaN.
ToNumber(x) ==
  CASE x.k = "null" -> Num(0)
    [] x.k = "undefined" -> NaN
    [] OTHER -> x

\* a + b on numbers
jsAdd(a, b) ==
  LET x == ToNumber(a)
      y == ToNumber(b)
  IN  CASE x.k = "nan" \/ y.k = "nan" -> NaN
        [] x.k = "inf" \/ y.k = "inf" -> Infinity
        [] OTHER -> LET g == GCD(x.d, y.d)
                    IN  Rat(x.n * (y.d \div g) + y.n * (x.d \div g),
                            (x.d \div g) * y.d)

\* a / b on numbers, for b >= 0
jsDiv(a, b) ==
  LET x == ToNumber(a)
      y == ToNumber(b)
  IN  CASE x.k = "nan" \/ y.k = "nan" -> NaN
        [] x.k = "inf" /\ y.k = "inf" -> NaN
        [] x.k = "inf" -> Infinity
        [] y.k = "inf" -> Num(0)
        [] y.n = 0 /\ x.n = 0 -> NaN
        [] y.n = 0 -> Infinity
        [] OTHER -> Rat(x.n * y.d, x.d * y.n)

(***************************************************************************)
(* Price Store: push-and-evict, and the averaging functions.               *)
(***************************************************************************)
\* history.filter(p => now - p.t <= TWAP_WINDOW_MS)
InWindow(history_, now) ==
  SelectSeq(history_, LAMBDA p : now - p.t <= TWAP_WINDOW_MS)

\* Mutants of store: one that puts the new observation first, one that never
\* evicts, one whose window is half open.
store_unshift(history_, value, now) ==
  InWindow(<<[t |-> now, v |-> value]>> \o history_, now)

store_noEvict(history_, value, now) ==
  Append(history_, [t |-> now, v |-> value])

store_strict(history_, value, now) ==
  SelectSeq(Append(history_, [t |-> now, v |-> value]),
            LAMBDA p : now - p.t < TWAP_WINDOW_MS)

\* store(history, value) / storePrice(history, value): push {t: now, v: value},
\* return the filtered array (which the caller assigns to the store).
store(history_, value, now) ==
  InWindow(Append(history_, [t |-> now, v |-> value]), now)

\* history.reduce((s, p) => s + p.v, 0)
RECURSIVE reduceSum(_, _, _)
reduceSum(history_, i, s) ==
  IF i > Len(history_) THEN s
  ELSE reduceSum(history_, i + 1, jsAdd(s, history_[i].v))

\* Mutants of twap: a duration-weighted average (each sample weighted by the
\* time until the next one), and one that answers null on an empty store.
RECURSIVE weightedSum(_, _, _)
weightedSum(history_, i, s) ==
  IF i >= Len(history_) THEN s
  ELSE weightedSum(history_, i + 1,
         jsAdd(s, Rat(history_[i].v.n * (history_[i + 1].t - history_[i].t),
                      history_[i].v.d)))

twap_timeWeighted(history_, fallback) ==
  IF Len(history_) = 0 THEN fallback
  ELSE IF history_[Len(history_)].t = history_[1].t
       THEN jsDiv(reduceSum(history_, 1, Num(0)), Num(Len(history_)))
       ELSE jsDiv(weightedSum(history_, 1, Num(0)),
                  Num(history_[Len(history_)].t - history_[1].t))

twap_emptyNull(history_, fallback) ==
  IF Len(history_) = 0 THEN null
  ELSE jsDiv(reduceSum(history_, 1, Num(0)), Num(Len(history_)))

\* twap(history, fallback) of the "v1 locked" server
twap(history_, fallback) ==
  IF Len(history_) = 0 THEN fallback
  ELSE jsDiv(reduceSum(history_, 1, Num(0)), Num(Len(history_)))

\* twap(history) of the simulation servers: 0 on an empty store
twap_v3(history_) ==
  IF Len(history_) = 0 THEN Num(0)
  ELSE jsDiv(reduceSum(history_, 1, Num(0)), Num(Len(history_)))

\* twap(history) of the candle servers: null on an empty store
twap_null(history_) ==
  IF Len(history_) = 0 THEN null
  ELSE jsDiv(reduceSum(history_, 1, Num(0)), Num(Len(history_)))

(***************************************************************************)
(* SpecStore: one Price Store, driven call by call.                        *)
(***************************************************************************)
NoCall ==
  [op |-> "none", arg |-> null, c |-> null, v3 |-> null, nul |-> null]

FX_LIST == <<"BRL", "RUB", "INR", "CNY", "ZAR">>

FX == {FX_LIST[i] : i \in 1..Len(FX_LIST)}

Instruments == {"gold"} \cup FX

Requests == 1..MaxReq

RatesTable(brl, rub, inr, cny, zar) ==
  [c \in FX |-> CASE c = "BRL" -> brl
                 [] c = "RUB" -> rub
                 [] c = "INR" -> inr
                 [] c = "CNY" -> cny
                 [] c = "ZAR" -> zar]

\* { BRL: 5, RUB: 90, INR: 83, CNY: 7.2, ZAR: 18 }
DefaultRates ==
  RatesTable(Num(5), Num(90), Num(83), Rat(36, 5), Num(18))

NoResponse ==
  [status |-> 0, body |-> "none", gold_usd_per_oz_twap |-> null]

\* The step just taken finished no handler.
NoOutcome ==
  [r |-> 0, resp |-> NoResponse, pushed |-> {}, fed |-> {},
   feedFailed |-> FALSE, spot |-> undefined,
   fxRates |-> [c \in FX |-> undefined]]

\* The timeframes, in minutes, the candle servers keep candles for, and the
\* keys a request can name: those, one no server keeps, and 0.
tfList == {1, 15, 30, 60, 180, 1440, 4320, 10080, 43200}

Timeframes == tfList \cup {7, 0}

\* The timeframes whose open candle is followed price by price.
Watched == {1, 15}

\* let currentCandle = {}: no candle is open for the timeframe.
NoCandle ==
  [time |-> -1, open |-> 0, high |-> 0, low |-> 0, close |-> 0]

\* No /ohlc request was made in the last step.
NoOhlc ==
  [route |-> "none", status |-> 0, timeframe |-> undefined,
   limit |-> undefined, body |-> NoCandle, candles |-> << >>]

InitStore ==
  /\ clock = 0
  /\ ticks = 0
  /\ variant = "none"
  /\ pc = [r \in Requests |-> "idle"]
  /\ gold = [r \in Requests |-> undefined]
  /\ goldHistory = << >>
  /\ fxHistory = [c \in FX |-> << >>]
  /\ priceHistory = << >>
  /\ LAST_GOOD = [gold |-> Num(1900), fx |-> DefaultRates]
  /\ outcome = NoOutcome
  /\ feedFailed = [r \in Requests |-> FALSE]
  /\ log = [i \in Instruments |-> << >>]
  /\ history = << >>
  /\ lastNow = 0
  /\ npush = 0
  /\ ret = NoCall
  /\ candlesStore = [tf \in Timeframes |-> << >>]
  /\ currentCandle = [tf \in tfList |-> NoCandle]
  /\ bucket = [tf \in Watched |-> [time |-> -1, prices |-> << >>]]
  /\ nquotes = 0
  /\ ohlc = NoOhlc

\* Time passes.
Tick(d) ==
  /\ ticks < MaxTicks
  /\ clock' = clock + d
  /\ ticks' = ticks + 1
  /\ ret' = NoCall
  /\ outcome' = NoOutcome
  /\ ohlc' = NoOhlc
  /\ UNCHANGED <<history, lastNow, npush, handlerVars, candleVars>>

\* history = store(history, value)
StoreCall(value) ==
  /\ npush < MaxPush
  /\ UNCHANGED <<candleVars, ohlc>>
  /\ history' = store(history, Num(value), clock)
  /\ lastNow' = clock
  /\ npush' = npush + 1
  /\ ret' = [NoCall EXCEPT !.op = "store", !.arg = Num(value)]
  /\ UNCHANGED <<clock, ticks, serverVars>>

\* twap(history, fallback), and the one-argument twap of the other servers
TwapCall(fallback) ==
  /\ UNCHANGED <<candleVars, ohlc>>
  /\ ret' = [op |-> "twap", arg |-> Num(fallback),
             c |-> twap(history, Num(fallback)),
             v3 |-> twap_v3(history),
             nul |-> twap_null(history)]
  /\ UNCHANGED <<clock, ticks, history, lastNow, npush, serverVars>>

NextStore ==
  \/ \E d \in Deltas : Tick(d)
  \/ \E value \in PushValues : StoreCall(value)
  \/ \E fallback \in Fallbacks : TwapCall(fallback)

SpecStore ==
  InitStore /\ [][NextStore]_vars

(***************************************************************************)
(* SpecServer: the GET /latest.json handlers.                              *)
(*                                                                         *)
(* variant names the deployed file:                                        *)
(*   srvA   src/server.js 1-145      candles, bare fetch, 500 on failure   *)
(*   srvB   src/server.js 147-330    safeFetchJSON, zero quote on failure  *)
(*   srvC   src/server.js 332-484    "v1 locked": safeJSON, twap fallback  *)
(*   s3sim  src/server3.js 1-108     simulated feeds, synchronous          *)
(*   s3lkg  src/server3.js 110-245   LAST_GOOD                             *)
(*   p0     src/unnamed/part_000     simulated feeds, synchronous          *)
(*   p1     src/unnamed/part_001     try/catch feeds, 500 on failure       *)
(*   p2     src/unnamed/part_002     no catch at all, one price store      *)
(* A handler runs without interruption between two awaits (one JavaScript  *)
(* thread), so each action below is the code from one await to the next.   *)
(* Every Date.now() of one such run reads the same clock value.            *)
(***************************************************************************)
Variants == {"srvA", "srvB", "srvC", "s3sim", "s3lkg", "p0", "p1", "p2"}

\* The two simulation servers (server3.js first file, unnamed/part_000)
SimVariants == {"s3sim", "p0"}

AsyncVariants == Variants \ SimVariants

\* GOLD_WEIGHT = 0.40 and FX_WEIGHT = 0.12
GOLD_WEIGHT == Rat(2, 5)

FX_WEIGHT == Rat(3, 25)

\* a * b on numbers
jsMul(a, b) ==
  LET x == ToNumber(a)
      y == ToNumber(b)
  IN  CASE x.k = "nan" \/ y.k = "nan" -> NaN
        [] (x.k = "inf" /\ y.k = "num" /\ y.n = 0) -> NaN
        [] (y.k = "inf" /\ x.k = "num" /\ x.n = 0) -> NaN
        [] x.k = "inf" \/ y.k = "inf" -> Infinity
        [] OTHER -> LET g == GCD(Abs(x.n), y.d)
                        h == GCD(Abs(y.n), x.d)
                    IN  Rat((x.n \div g) * (y.n \div h),
                            (x.d \div h) * (y.d \div g))

\* Truthiness, as || and ! see it
Truthy(x) ==
  /\ x.k \notin {"nan", "null", "undefined"}
  /\ ~(x.k = "num" /\ x.n = 0)

(***************************************************************************)
(* What the upstream feeds can answer.  net: the connection ("reject" is a *)
(* network error, "hang" never answers); ok: res.ok; shape: what the body  *)
(* parses to.                                                              *)
(***************************************************************************)
GoldQuotes == {2000}

LiveRates ==
  RatesTable(Num(4), Num(100), Num(80), Num(8), Num(20))

NoRates ==
  [c \in FX |-> undefined]

GoldReply(net, ok, shape, val) ==
  [net |-> net, ok |-> ok, shape |-> shape, val |-> val]

FXReply(net, ok, shape, rates) ==
  [net |-> net, ok |-> ok, shape |-> shape, rates |-> rates]

GoldReplies ==
  {GoldReply("ok", TRUE, "array", Num(g)) : g \in GoldQuotes}   \* [{gold: g}]
    \cup {GoldReply("reject", FALSE, "none", undefined),
          GoldReply("hang", FALSE, "none", undefined),
          GoldReply("ok", FALSE, "object", undefined),           \* 5xx, {error}
          GoldReply("ok", TRUE, "notJSON", undefined),
          GoldReply("ok", TRUE, "emptyArray", undefined),        \* []
          GoldReply("ok", TRUE, "noGold", undefined),            \* [{}]
          GoldReply("ok", TRUE, "null", undefined)}              \* null

FXReplies ==
  {FXReply("ok", TRUE, "rates", LiveRates),                      \* {rates: {...}}
   FXReply("reject", FALSE, "none", NoRates),
   FXReply("hang", FALSE, "none", NoRates),
   FXReply("ok", FALSE, "object", NoRates),                      \* 5xx, {error}
   FXReply("ok", TRUE, "notJSON", NoRates),
   FXReply("ok", TRUE, "object", NoRates),                       \* {success: false}
   FXReply("ok", TRUE, "null", NoRates)}                         \* null

\* A feed call failed: network error, timeout, error status or a payload
\* without the value asked for.
Failure(reply) ==
  ~(reply.net = "ok" /\ reply.ok /\ reply.shape \in {"array", "rates"})

\* What a pending fetch becomes for the handler.  A feed that never answers
\* is cut off by the AbortController of srvB and by the default timeouts of
\* the built-in fetch of p1, and then rejects; node-fetch honours the
\* timeout option of srvC in version 2 and ignores it in version 3; the
\* other servers pass no timeout to node-fetch and wait for ever.
Settled(variant_, reply) ==
  IF reply.net # "hang" THEN {reply}
  ELSE CASE variant_ \in {"srvB", "p1"} -> {[reply EXCEPT !.net = "reject"]}
         [] variant_ = "srvC" -> {[reply EXCEPT !.net = "reject"], reply}
         [] OTHER -> {reply}

Return(v) ==
  [res |-> "return", v |-> v, good |-> FALSE]

Throw ==
  [res |-> "throw", v |-> undefined, good |-> FALSE]

\* const res = await fetch(url); const data = await res.json();
PlainFetchThrows(reply) ==
  reply.net = "reject" \/ reply.shape = "notJSON"

\* safeFetchJSON / safeJSON: the fallback on a rejected fetch, a response
\* that is not ok, or a body that is not JSON
UsesFallback(reply) ==
  reply.net = "reject" \/ ~reply.ok \/ reply.shape = "notJSON"

\* data[0].gold
IndexGold(reply) ==
  CASE reply.shape = "array" -> Return(reply.val)
    [] reply.shape = "noGold" -> Return(undefined)
    [] OTHER -> Throw

\* Mutant of getGold: the last-known-good server answers the built-in 1900
\* on a failure, not the last good value.
getGold_forgets(variant_, reply, lastGood, rnd) ==
  CASE variant_ \in {"srvA", "p2"} ->
         IF PlainFetchThrows(reply) THEN Throw ELSE IndexGold(reply)
    [] variant_ = "p1" ->
         IF PlainFetchThrows(reply) \/ IndexGold(reply).res = "throw"
         THEN Return(Num(rnd))
         ELSE IndexGold(reply)
    [] variant_ = "srvB" ->
         \* Number(data[0]?.gold || 1900)
         IF UsesFallback(reply) THEN Return(Num(1900))
         ELSE IF reply.shape = "null" THEN Throw
         ELSE IF reply.shape = "array" /\ Truthy(reply.val) THEN Return(reply.val)
         ELSE Return(Num(1900))
    [] variant_ = "srvC" ->
         \* d?.[0]?.gold ?? 1900
         IF UsesFallback(reply) THEN Return(Num(1900))
         ELSE IF reply.shape = "array" THEN Return(reply.val)
         ELSE Return(Num(1900))
    [] variant_ = "s3lkg" ->
         \* if (!v) throw "bad gold"; LAST_GOOD.gold = v
         IF UsesFallback(reply) \/ reply.shape # "array" \/ ~Truthy(reply.val)
         THEN Return(Num(1900))
         ELSE [res |-> "return", v |-> reply.val, good |-> TRUE]

\* getGoldUSDPerOz / fetchGoldUSDPerOz / getGold of each server
getGold(variant_, reply, lastGood, rnd) ==
  CASE variant_ \in {"srvA", "p2"} ->
         IF PlainFetchThrows(reply) THEN Throw ELSE IndexGold(reply)
    [] variant_ = "p1" ->
         IF PlainFetchThrows(reply) \/ IndexGold(reply).res = "throw"
         THEN Return(Num(rnd))
         ELSE IndexGold(reply)
    [] variant_ = "srvB" ->
         \* Number(data[0]?.gold || 1900)
         IF UsesFallback(reply) THEN Return(Num(1900))
         ELSE IF reply.shape = "null" THEN Throw
         ELSE IF reply.shape = "array" /\ Truthy(reply.val) THEN Return(reply.val)
         ELSE Return(Num(1900))
    [] variant_ = "srvC" ->
         \* d?.[0]?.gold ?? 1900
         IF UsesFallback(reply) THEN Return(Num(1900))
         ELSE IF reply.shape = "array" THEN Return(reply.val)
         ELSE Return(Num(1900))
    [] variant_ = "s3lkg" ->
         \* if (!v) throw "bad gold"; LAST_GOOD.gold = v
         IF UsesFallback(reply) \/ reply.shape # "array" \/ ~Truthy(reply.val)
         THEN Return(lastGood.gold)
         ELSE [res |-> "return", v |-> reply.val, good |-> TRUE]

ReturnRates(defined, rates) ==
  [res |-> "return", defined |-> defined, rates |-> rates, good |-> FALSE]

ThrowRates ==
  [res |-> "throw", defined |-> FALSE, rates |-> NoRates, good |-> FALSE]

\* json.rates
RatesOf(reply) ==
  CASE reply.shape = "rates" -> ReturnRates(TRUE, reply.rates)
    [] reply.shape = "null" -> ThrowRates
    [] OTHER -> ReturnRates(FALSE, NoRates)

\* getFXRates / fetchFX / getFX of each server
getFX(variant_, reply, lastGood) ==
  CASE variant_ \in {"srvA", "p2"} ->
         IF PlainFetchThrows(reply) THEN ThrowRates ELSE RatesOf(reply)
    [] variant_ = "p1" ->
         IF PlainFetchThrows(reply) \/ RatesOf(reply).res = "throw"
         THEN ReturnRates(TRUE, [c \in FX |-> Num(1)])
         ELSE RatesOf(reply)
    [] variant_ = "srvB" ->
         IF UsesFallback(reply) THEN ReturnRates(TRUE, DefaultRates)
         ELSE RatesOf(reply)
    [] variant_ = "srvC" ->
         \* d?.rates ?? { BRL:5, ... }
         IF UsesFallback(reply) \/ reply.shape # "rates"
         THEN ReturnRates(TRUE, DefaultRates)
         ELSE ReturnRates(TRUE, reply.rates)
    [] variant_ = "s3lkg" ->
         \* if (!d?.rates) throw "bad fx"; LAST_GOOD.fx = d.rates
         IF UsesFallback(reply) \/ reply.shape # "rates"
         THEN ReturnRates(TRUE, lastGood.fx)
         ELSE [res |-> "return", defined |-> TRUE, rates |-> reply.rates,
               good |-> TRUE]

\* What the catch of the route answers; p2 has no catch: the rejection of its
\* async handler is left to the framework, which answers 500 (Express 5) or
\* never answers (Express 4).
routeCatch(variant_) ==
  CASE variant_ \in {"srvA", "p1"} ->
         {[status |-> 500, body |-> "text", gold_usd_per_oz_twap |-> null]}
    [] variant_ \in {"srvB", "srvC"} ->
         {[status |-> 200, body |-> "zeros", gold_usd_per_oz_twap |-> Num(0)]}
    [] variant_ = "s3lkg" ->
         {[status |-> 200, body |-> "lastGood",
           gold_usd_per_oz_twap |-> LAST_GOOD.gold]}
    [] variant_ = "p2" ->
         {[status |-> 500, body |-> "text", gold_usd_per_oz_twap |-> null],
          NoResponse}

\* The value each server pushes into the store of a currency
fxValue(variant_, rate) ==
  IF variant_ \in {"srvA", "srvB", "p1"} THEN jsDiv(Num(1), rate) ELSE rate

\* The gold average each server publishes
goldTWAP(variant_, history_, spot) ==
  CASE variant_ \in {"srvA", "p1"} -> twap_null(history_)
    [] variant_ = "srvB" ->
         IF Truthy(twap_null(history_)) THEN twap_null(history_) ELSE spot
    [] variant_ = "srvC" -> twap(history_, spot)
    [] variant_ = "s3lkg" ->
         IF twap_null(history_).k = "null" THEN spot ELSE twap_null(history_)
    [] variant_ \in SimVariants -> twap_v3(history_)
    [] OTHER -> spot

\* unitUSD of p2, as a multiple of UNIT_BASE_GOLD / GOLD_G_PER_OZ:
\* basketIndex = GOLD_WEIGHT + sum of FX_WEIGHT * (fx[c] / fx[c])
RECURSIVE basketIndex(_, _, _)
basketIndex(fx, i, acc) ==
  IF i > Len(FX_LIST) THEN acc
  ELSE basketIndex(fx, i + 1,
         jsAdd(acc, jsMul(FX_WEIGHT, jsDiv(fx[FX_LIST[i]], fx[FX_LIST[i]]))))

unitUSD_p2(goldUSD, fx) ==
  jsMul(basketIndex(fx, 1, GOLD_WEIGHT), goldUSD)

(***************************************************************************)
(* Basket composition.  A USD amount is kept as the pair of its exact      *)
(* coefficients g and f in  g * (UNIT_BASE_GOLD / GOLD_G_PER_OZ)  +        *)
(* f * UNIT_BASE_GOLD  (0.9823 / 31.1034768 and 0.9823): every formula of  *)
(* the servers is linear in these two constants.  An amount that is not a  *)
(* number is NaN or Infinity in both coefficients.                         *)
(***************************************************************************)
IsNumber(x) ==
  x.k = "num"

Price(g, f) ==
  CASE ToNumber(g).k = "nan" \/ ToNumber(f).k = "nan" -> [g |-> NaN, f |-> NaN]
    [] ToNumber(g).k = "inf" \/ ToNumber(f).k = "inf" ->
         [g |-> Infinity, f |-> Infinity]
    [] OTHER -> [g |-> ToNumber(g), f |-> ToNumber(f)]

PriceIsNumber(p) ==
  IsNumber(p.g) /\ IsNumber(p.f)

\* a + b and a * x on USD amounts, x a plain number
priceAdd(a, b) ==
  Price(jsAdd(a.g, b.g), jsAdd(a.f, b.f))

priceMul(a, x) ==
  Price(jsMul(a.g, x), jsMul(a.f, x))

priceDiv(a, x) ==
  Price(jsDiv(a.g, x), jsDiv(a.f, x))

\* x || y
jsOr(x, y) ==
  IF Truthy(x) THEN x ELSE y

\* The average of a currency each server publishes in fx_usd_twap
fxTWAPOf(variant_, history_, spot) ==
  CASE variant_ \in {"srvA", "p1"} -> twap_null(history_)
    [] variant_ = "srvB" -> jsOr(twap_null(history_), Num(0))
    [] variant_ = "srvC" -> twap(history_, spot)
    [] variant_ = "s3lkg" ->
         IF twap_null(history_).k = "null" THEN spot ELSE twap_null(history_)
    [] OTHER -> twap_v3(history_)

\* FX_LIST.forEach(c => fxUSD += ...), from fxUSD = acc
RECURSIVE sumLegs(_, _, _)
sumLegs(leg, i, acc) ==
  IF i > Len(FX_LIST) THEN acc
  ELSE sumLegs(leg, i + 1, priceAdd(acc, leg[FX_LIST[i]]))

\* unitGold = UNIT_BASE_GOLD * (GOLD_WEIGHT + FX_LIST.length * FX_WEIGHT),
\* in units of UNIT_BASE_GOLD
unitGoldFactor ==
  jsAdd(GOLD_WEIGHT, jsMul(Num(Len(FX_LIST)), FX_WEIGHT))

Composed(goldUSD, fxLegs, fxUSD, unitUSD) ==
  [goldUSD |-> goldUSD, fxLegs |-> fxLegs, fxUSD |-> fxUSD,
   unitUSD |-> unitUSD]

\* The Basket Composer of each server: from the gold average and the
\* currency averages to the gold contribution, the currency contributions
\* and the unit value.
compose(variant_, goldTWAP_, fxTWAP_, spot) ==
  CASE variant_ \in {"srvA", "p1", "srvB"} ->
         \* goldUSD = GOLD_WEIGHT * unitGold * (goldTWAP / GOLD_G_PER_OZ)
         \* fxUSD += FX_WEIGHT * unitGold * fxTWAP[ccy]
         LET gT == IF variant_ = "srvB" THEN jsOr(goldTWAP_, spot)
                   ELSE goldTWAP_
             goldUSD == Price(jsMul(jsMul(GOLD_WEIGHT, unitGoldFactor), gT),
                              Num(0))
             legs == [c \in FX |->
                        Price(Num(0),
                              jsMul(jsMul(FX_WEIGHT, unitGoldFactor),
                                    IF variant_ = "srvB"
                                    THEN jsOr(fxTWAP_[c], Num(0))
                                    ELSE fxTWAP_[c]))]
             fxUSD == sumLegs(legs, 1, Price(Num(0), Num(0)))
         IN  Composed(goldUSD, legs, fxUSD, priceAdd(goldUSD, fxUSD))
    [] variant_ = "srvC" ->
         \* goldUSD = (UNIT_BASE_GOLD_G / GOLD_G_PER_OZ) * goldTWAP * GOLD_WEIGHT
         \* fxUSD = goldUSD * ((1 - GOLD_WEIGHT) / GOLD_WEIGHT)
         LET goldUSD == Price(jsMul(goldTWAP_, GOLD_WEIGHT), Num(0))
             fxUSD == priceMul(goldUSD,
                               jsDiv(jsAdd(Num(1), jsMul(Num(-1), GOLD_WEIGHT)),
                                     GOLD_WEIGHT))
         IN  Composed(goldUSD, << >>, fxUSD, priceAdd(goldUSD, fxUSD))
    [] variant_ = "p0" ->
         \* fxUSD += FX_WEIGHT * (goldUSD / GOLD_WEIGHT)
         LET goldUSD == Price(jsMul(goldTWAP_, GOLD_WEIGHT), Num(0))
             legs == [c \in FX |->
                        priceMul(priceDiv(goldUSD, GOLD_WEIGHT), FX_WEIGHT)]
             fxUSD == sumLegs(legs, 1, Price(Num(0), Num(0)))
         IN  Composed(goldUSD, legs, fxUSD, priceAdd(goldUSD, fxUSD))
    [] variant_ = "s3sim" ->
         \* goldUSD = (UNIT_BASE_GOLD_G / GOLD_G_PER_OZ) * goldTWAP
         \* goldLegUSD = goldUSD * GOLD_WEIGHT
         \* usdValue = goldUSD * FX_WEIGHT / GOLD_WEIGHT
         LET goldUSD == Price(goldTWAP_, Num(0))
             goldLegUSD == priceMul(goldUSD, GOLD_WEIGHT)
             legs == [c \in FX |->
                        priceDiv(priceMul(goldUSD, FX_WEIGHT), GOLD_WEIGHT)]
             fxUSD == sumLegs(legs, 1, Price(Num(0), Num(0)))
         IN  Composed(goldLegUSD, legs, fxUSD, priceAdd(goldLegUSD, fxUSD))
    [] variant_ = "s3lkg" ->
         \* goldUSD = GOLD_WEIGHT * unitGold * (goldTWAP / GOLD_G_PER_OZ)
         \* fxUSD += FX_WEIGHT * (goldUSD / GOLD_WEIGHT)
         LET goldUSD == Price(jsMul(jsMul(GOLD_WEIGHT, unitGoldFactor),
                                    goldTWAP_), Num(0))
             legs == [c \in FX |->
                        priceMul(priceDiv(goldUSD, GOLD_WEIGHT), FX_WEIGHT)]
             fxUSD == sumLegs(legs, 1, Price(Num(0), Num(0)))
         IN  Composed(goldUSD, legs, fxUSD, priceAdd(goldUSD, fxUSD))

\* The Unit Quote a cycle publishes, from the stores as its pushes left
\* them: goldHistory_ and fxHistory_ are the stores after the push, spot and
\* rates what the feed adapters returned.  composed holds the amounts of the
\* cycle that the quote is made of.
QuoteOf(variant_, goldHistory_, fxHistory_, spot, rates) ==
  IF variant_ = "p2"
  THEN LET unitUSD == Price(unitUSD_p2(spot, rates), Num(0))
       IN  [gold_usd_per_oz_twap |-> spot,
            fx_usd_twap |-> << >>,
            unit_usd |-> unitUSD,
            hundred_units_usd |-> priceMul(unitUSD, Num(100)),
            composed |-> Composed(unitUSD, << >>, Price(Num(0), Num(0)),
                                  unitUSD)]
  ELSE LET gT == goldTWAP(variant_, goldHistory_, spot)
           fT == [c \in FX |-> fxTWAPOf(variant_, fxHistory_[c], rates[c])]
           cmp == compose(variant_, gT, fT, spot)
       IN  [gold_usd_per_oz_twap |-> gT,
            fx_usd_twap |-> fT,
            unit_usd |-> cmp.unitUSD,
            hundred_units_usd |-> priceMul(cmp.unitUSD, Num(100)),
            composed |-> cmp]

\* The Unit Quote in the response of the cycle that has just finished: no
\* other handler has run since, so the stores are as its pushes left them.
UnitQuote ==
  QuoteOf(variant, goldHistory, fxHistory, outcome.spot, outcome.fxRates)

\* tfList.forEach(tf => updateCandle(tf, unit.unitUSD)): the candle servers
\* fold the price of a successful cycle into the open candle of each of the
\* nine timeframes, after generateUnitPrice has returned.  Only the fact of
\* the update is kept here, not the candle.
candleFeeds(variant_) ==
  IF variant_ \in {"srvA", "srvB", "p1"} THEN tfList ELSE {}

\* The array the handler of request r hands to store for gold: the store as
\* it is when the call is made.  The mutant has the handler of the first
\* request hand over the array as it was when that request began, which is
\* the empty store, the requests being taken in order.
goldHistoryStale(r) ==
  IF r = 1 THEN << >> ELSE goldHistory

goldHistoryAt(r) ==
  goldHistory

Obs(value) ==
  [t |-> clock, v |-> value]

InitServer ==
  /\ clock = 0
  /\ ticks = 0
  /\ variant \in Variants
  /\ pc = [r \in Requests |-> "idle"]
  /\ gold = [r \in Requests |-> undefined]
  /\ goldHistory = << >>
  /\ fxHistory = [c \in FX |-> << >>]
  /\ priceHistory = << >>
  /\ LAST_GOOD = [gold |-> Num(1900), fx |-> DefaultRates]
  /\ outcome = NoOutcome
  /\ feedFailed = [r \in Requests |-> FALSE]
  /\ log = [i \in Instruments |-> << >>]
  /\ history = << >>
  /\ lastNow = 0
  /\ npush = 0
  /\ ret = NoCall
  /\ candlesStore = [tf \in Timeframes |-> << >>]
  /\ currentCandle = [tf \in tfList |-> NoCandle]
  /\ bucket = [tf \in Watched |-> [time |-> -1, prices |-> << >>]]
  /\ nquotes = 0
  /\ ohlc = NoOhlc

\* Requests are taken in the order of their numbers.
MayBegin(r) ==
  /\ pc[r] = "idle"
  /\ \A q \in Requests : q < r => pc[q] # "idle"

\* GET /latest.json arrives: the handler runs up to its first await, the
\* gold fetch.
Request(r) ==
  /\ variant \in AsyncVariants
  /\ UNCHANGED <<candleVars, ohlc>>
  /\ MayBegin(r)
  /\ pc' = [pc EXCEPT ![r] = "gold"]
  /\ UNCHANGED <<clock, ticks, storeVars, variant, gold, goldHistory, fxHistory,
                 priceHistory, LAST_GOOD, feedFailed, log>>
  /\ outcome' = NoOutcome

\* The handler of request r has run to its end (a response, or in p2 an
\* unhandled rejection): its locals are gone, what it did is the outcome of
\* this step.
Finish(r, answer, pushed, failed, spot, fxRates) ==
  /\ pc' = [pc EXCEPT ![r] = "done"]
  /\ gold' = [gold EXCEPT ![r] = undefined]
  /\ feedFailed' = [feedFailed EXCEPT ![r] = FALSE]
  /\ outcome' = [r |-> r, resp |-> answer, pushed |-> pushed,
                 fed |-> IF answer.body = "quote" THEN candleFeeds(variant)
                         ELSE {},
                 feedFailed |-> failed, spot |-> spot, fxRates |-> fxRates]

\* The handler ends in its catch (or, in p2, in an unhandled rejection).
Fails(r, pushed, failed, fxRates) ==
  \E answer \in routeCatch(variant) :
    Finish(r, answer, pushed, failed, gold[r], fxRates)

\* The handler waits for ever on a fetch that never settles.
Hangs(r, failed) ==
  /\ pc' = [pc EXCEPT ![r] = "hung"]
  /\ feedFailed' = [feedFailed EXCEPT ![r] = failed]
  /\ outcome' = NoOutcome
  /\ UNCHANGED gold

\* The gold fetch of request r settles; the handler runs on to the FX fetch.
GoldSettles(r, reply, rnd) ==
  /\ pc[r] = "gold"
  /\ UNCHANGED <<candleVars, ohlc>>
  /\ \E eff \in Settled(variant, reply) :
       IF eff.net = "hang"
       THEN /\ Hangs(r, Failure(reply))
            /\ UNCHANGED LAST_GOOD
       ELSE LET g == getGold(variant, eff, LAST_GOOD, rnd)
            IN  IF g.res = "throw"
                THEN /\ Fails(r, {}, Failure(reply), NoRates)
                     /\ UNCHANGED LAST_GOOD
                ELSE /\ pc' = [pc EXCEPT ![r] = "fx"]
                     /\ gold' = [gold EXCEPT ![r] = g.v]
                     /\ feedFailed' = [feedFailed EXCEPT ![r] = Failure(reply)]
                     /\ LAST_GOOD' = IF g.good
                                     THEN [LAST_GOOD EXCEPT !.gold = g.v]
                                     ELSE LAST_GOOD
                     /\ outcome' = NoOutcome
  /\ UNCHANGED <<clock, ticks, storeVars, variant, goldHistory, fxHistory,
                 priceHistory, log>>

\* goldHistory = store(goldHistory, gold)
PushGold(r) ==
  goldHistory' = store(goldHistoryAt(r), gold[r], clock)

\* FX_LIST.forEach(c => fxHistory[c] = store(fxHistory[c], ...))
PushFX(rates) ==
  fxHistory' = [c \in FX |->
                  store(fxHistory[c], fxValue(variant, rates[c]), clock)]

\* Every observation handed to a store, in the order of the pushes.
Logged(pushed, goldValue) ==
  log' = [i \in Instruments |->
            IF i \notin pushed THEN log[i]
            ELSE IF i = "gold" THEN Append(log[i], Obs(goldValue))
            ELSE Append(log[i], fxHistory'[i][Len(fxHistory'[i])])]

\* The response of a successful cycle.  Of the Unit Quote only the gold
\* average is kept in the response; the whole quote is UnitQuote below.
Quote(r) ==
  [status |-> 200, body |-> "quote",
   gold_usd_per_oz_twap |-> goldTWAP(variant, goldHistory', gold[r])]

\* The FX fetch of request r settles; the handler runs to its end: the
\* pushes, the averages, the quote, the response.
FXSettles(r, reply) ==
  /\ pc[r] = "fx"
  /\ UNCHANGED <<candleVars, ohlc>>
  /\ LET failed == feedFailed[r] \/ Failure(reply)
     IN  \E eff \in Settled(variant, reply) :
       IF eff.net = "hang"
       THEN /\ Hangs(r, failed)
            /\ UNCHANGED <<goldHistory, fxHistory, priceHistory, LAST_GOOD, log>>
       ELSE LET f == getFX(variant, eff, LAST_GOOD)
            IN  /\ LAST_GOOD' = IF f.good
                                THEN [LAST_GOOD EXCEPT !.fx = f.rates]
                                ELSE LAST_GOOD
                /\ CASE f.res = "throw" ->
                          /\ Fails(r, {}, failed, f.rates)
                          /\ UNCHANGED <<goldHistory, fxHistory, priceHistory,
                                         log>>
                     [] f.res # "throw" /\ variant = "p2" ->
                          \* fx[ccy] of an undefined fx throws before storePrice
                          IF ~f.defined
                          THEN /\ Fails(r, {}, failed, f.rates)
                               /\ UNCHANGED <<goldHistory, fxHistory,
                                              priceHistory, log>>
                          ELSE /\ priceHistory' =
                                    store(priceHistory,
                                          unitUSD_p2(gold[r], f.rates), clock)
                               /\ Finish(r, Quote(r), {}, failed, gold[r],
                                         f.rates)
                               /\ UNCHANGED <<goldHistory, fxHistory, log>>
                     [] f.res # "throw" /\ variant # "p2" /\ ~f.defined ->
                          \* the gold push is done, fxRates[ccy] throws
                          /\ PushGold(r)
                          /\ Logged({"gold"}, gold[r])
                          /\ Fails(r, {"gold"}, failed, f.rates)
                          /\ UNCHANGED <<fxHistory, priceHistory>>
                     [] OTHER ->
                          /\ PushFX(f.rates)
                          /\ PushGold(r)
                          /\ Logged(Instruments, gold[r])
                          /\ Finish(r, Quote(r), Instruments, failed,
                                    gold[r], f.rates)
                          /\ UNCHANGED priceHistory
  /\ UNCHANGED <<clock, ticks, storeVars, variant>>

\* simulateGold() and simulateFX(): values around 1900 and around the
\* default rates.
SimGold == {1850, 1950}

\* GET /latest.json of the simulation server: computeUnit has no await.
SimRequest(r, g) ==
  /\ variant \in SimVariants
  /\ UNCHANGED <<candleVars, ohlc>>
  /\ MayBegin(r)
  /\ fxHistory' = [c \in FX |-> store(fxHistory[c], DefaultRates[c], clock)]
  /\ goldHistory' = store(goldHistory, Num(g), clock)
  /\ Logged(Instruments, Num(g))
  /\ Finish(r, [status |-> 200, body |-> "quote",
                gold_usd_per_oz_twap |->
                  goldTWAP(variant, goldHistory', Num(g))],
            Instruments, FALSE, Num(g), DefaultRates)
  /\ UNCHANGED <<clock, ticks, storeVars, variant, priceHistory, LAST_GOOD>>

\* Math.random() * 5 added to 1900 in the gold fallback of p1
RandomGold == {1903}

\* Only the pushes read the clock, so time is let pass only when a handler is
\* about to push.
ClockIsRead ==
  \E r \in Requests :
    \/ pc[r] = "fx"
    \/ variant \in SimVariants /\ pc[r] = "idle"

NextServer ==
  \/ \E d \in Deltas : ticks < MaxElapse /\ ClockIsRead /\ Tick(d)
  \/ \E r \in Requests : Request(r)
  \/ \E r \in Requests, reply \in GoldReplies, rnd \in RandomGold :
       GoldSettles(r, reply, rnd)
  \/ \E r \in Requests, reply \in FXReplies : FXSettles(r, reply)
  \/ \E r \in Requests, g \in SimGold : SimRequest(r, g)

SpecServer ==
  InitServer /\ [][NextServer]_vars

(***************************************************************************)
(* SpecCycle: the same handlers, one request at a time, with an FX feed    *)
(* that can also answer a rates map in which one currency is missing, zero *)
(* or null.                                                                *)
(***************************************************************************)
\* {rates: {BRL: 4, RUB: 100, INR: 80, CNY: 8}}, {rates: {..., ZAR: 0}},
\* {rates: {..., ZAR: null}}
DegradedRates ==
  {[LiveRates EXCEPT !["ZAR"] = x] : x \in {undefined, Num(0), null}}

CycleFXReplies ==
  FXReplies \cup {FXReply("ok", TRUE, "rates", rates) : rates \in DegradedRates}

\* No handler is between two awaits.
Serial ==
  \A q \in Requests : pc[q] \notin {"gold", "fx"}

NextCycle ==
  \/ \E d \in Deltas : ticks < MaxElapse /\ ClockIsRead /\ Tick(d)
  \/ \E r \in Requests : Serial /\ Request(r)
  \/ \E r \in Requests, reply \in GoldReplies, rnd \in RandomGold :
       GoldSettles(r, reply, rnd)
  \/ \E r \in Requests, reply \in CycleFXReplies : FXSettles(r, reply)
  \/ \E r \in Requests, g \in SimGold : SimRequest(r, g)

SpecCycle ==
  InitServer /\ [][NextCycle]_vars

(***************************************************************************)
(* SpecCandle: the candle engine and the /ohlc routes.                     *)
(*                                                                         *)
(* The price of a published Unit Quote is an input here, drawn from        *)
(* CandlePrices; the engine is the same code whatever the price was        *)
(* composed from.  Candle times are seconds, the clock is milliseconds.    *)
(* The servers here are those that serve GET /ohlc.  In SpecCandle a       *)
(* server starts with empty candle lists.  In SpecFull it has been up for  *)
(* MAX_CANDLES minutes with one quote a minute at the price 100, which is  *)
(* how the list of the one-minute timeframe comes to hold MAX_CANDLES      *)
(* candles; its steps are those that write the lists.                      *)
(***************************************************************************)
MAX_CANDLES == 1000

CandleVariants == {"srvA", "p1", "p2"}

EngineVariants == {"srvA", "p1"}

CandleDeltas == {30000, 60000}

CandlePrices == {98, 100, 105}

Uptime == MAX_CANDLES

Candle(time, price) ==
  [time |-> time, open |-> price, high |-> price, low |-> price,
   close |-> price]

\* Mutant of getCandleTime: the time in seconds, not aligned to the bucket.
getCandleTime_unaligned(ts, tf_min) ==
  ts \div 1000

\* Math.floor(ts / (tf_min * 60 * 1000)) * tf_min * 60; the division is taken
\* in two steps, which gives the same floor and stays within 32 bits.
getCandleTime(ts, tf_min) ==
  ((ts \div (60 * 1000)) \div tf_min) * tf_min * 60

\* data.slice(start): a negative start counts from the end.
slice(data, start) ==
  LET from == IF start < 0
              THEN (IF Len(data) + start < 0 THEN 0 ELSE Len(data) + start)
              ELSE (IF start > Len(data) THEN Len(data) ELSE start)
  IN  SubSeq(data, from + 1, Len(data))

\* if (list.length > MAX_CANDLES) list = list.slice(-MAX_CANDLES).  The
\* mutant keeps the oldest candles.
capped_oldest(list) ==
  IF Len(list) > MAX_CANDLES THEN SubSeq(list, 1, MAX_CANDLES) ELSE list

capped(list) ==
  IF Len(list) > MAX_CANDLES THEN slice(list, -MAX_CANDLES) ELSE list

\* Mutant of Math_max: the high of the candle is left as it is.
Math_max_first(a, b) ==
  a

Math_max(a, b) ==
  IF a >= b THEN a ELSE b

Math_min(a, b) ==
  IF a <= b THEN a ELSE b

\* Mutant of updateCandle: a price inside the bucket leaves the close as it is.
updateCandle_keepsClose(list, current, time, price) ==
  IF current = NoCandle \/ current.time # time
  THEN [candles |-> IF current # NoCandle
                    THEN capped(Append(list, current))
                    ELSE list,
        current |-> Candle(time, price)]
  ELSE [candles |-> list,
        current |-> [current EXCEPT !.high = Math_max(current.high, price),
                                    !.low = Math_min(current.low, price)]]

\* updateCandle(tf_min, price) on the list and the open candle of tf_min,
\* time being getCandleTime(Date.now(), tf_min)
updateCandle(list, current, time, price) ==
  IF current = NoCandle \/ current.time # time
  THEN [candles |-> IF current # NoCandle
                    THEN capped(Append(list, current))
                    ELSE list,
        current |-> Candle(time, price)]
  ELSE [candles |-> list,
        current |-> [current EXCEPT !.high = Math_max(current.high, price),
                                    !.low = Math_min(current.low, price),
                                    !.close = price]]

\* The prices folded into the open candle of a timeframe, kept beside it.
folded(b, time, price) ==
  IF b.time = time
  THEN [b EXCEPT !.prices = Append(b.prices, price)]
  ELSE [time |-> time, prices |-> <<price>>]

InitCandle ==
  /\ variant \in CandleVariants
  /\ clock = 0
  /\ candlesStore = [tf \in Timeframes |-> << >>]
  /\ currentCandle = [tf \in tfList |-> NoCandle]
  /\ bucket = [tf \in Watched |-> [time |-> -1, prices |-> << >>]]
  /\ ticks = 0
  /\ nquotes = 0
  /\ ohlc = NoOhlc
  /\ pc = [r \in Requests |-> "idle"]
  /\ gold = [r \in Requests |-> undefined]
  /\ goldHistory = << >>
  /\ fxHistory = [c \in FX |-> << >>]
  /\ priceHistory = << >>
  /\ LAST_GOOD = [gold |-> Num(1900), fx |-> DefaultRates]
  /\ outcome = NoOutcome
  /\ feedFailed = [r \in Requests |-> FALSE]
  /\ log = [i \in Instruments |-> << >>]
  /\ history = << >>
  /\ lastNow = 0
  /\ npush = 0
  /\ ret = NoCall

InitFull ==
  /\ variant \in CandleVariants
  /\ clock = Uptime * 60 * 1000
  /\ candlesStore =
       [tf \in Timeframes |->
          IF tf \in tfList /\ (variant \in EngineVariants \/ tf = 1)
          THEN [j \in 1..(Uptime \div tf) |-> Candle((j - 1) * tf * 60, 100)]
          ELSE << >>]
  /\ currentCandle =
       [tf \in tfList |->
          IF variant \in EngineVariants
          THEN Candle(getCandleTime(Uptime * 60 * 1000, tf), 100)
          ELSE NoCandle]
  /\ bucket =
       [tf \in Watched |->
          IF variant \in EngineVariants
          THEN [time |-> getCandleTime(Uptime * 60 * 1000, tf),
                prices |-> [i \in 1..(Uptime - (Uptime \div tf) * tf + 1)
                              |-> 100]]
          ELSE [time |-> -1, prices |-> << >>]]
  /\ ticks = 0
  /\ nquotes = 0
  /\ ohlc = NoOhlc
  /\ pc = [r \in Requests |-> "idle"]
  /\ gold = [r \in Requests |-> undefined]
  /\ goldHistory = << >>
  /\ fxHistory = [c \in FX |-> << >>]
  /\ priceHistory = << >>
  /\ LAST_GOOD = [gold |-> Num(1900), fx |-> DefaultRates]
  /\ outcome = NoOutcome
  /\ feedFailed = [r \in Requests |-> FALSE]
  /\ log = [i \in Instruments |-> << >>]
  /\ history = << >>
  /\ lastNow = 0
  /\ npush = 0
  /\ ret = NoCall

\* tfList.forEach(tf => updateCandle(tf, unit.unitUSD)) of GET /latest.json
CandleUpdate(price) ==
  /\ variant \in EngineVariants
  /\ nquotes < MaxQuotes
  /\ candlesStore' =
       [tf \in Timeframes |->
          IF tf \in tfList
          THEN updateCandle(candlesStore[tf], currentCandle[tf],
                            getCandleTime(clock, tf), price).candles
          ELSE candlesStore[tf]]
  /\ currentCandle' =
       [tf \in tfList |->
          updateCandle(candlesStore[tf], currentCandle[tf],
                       getCandleTime(clock, tf), price).current]
  /\ bucket' = [tf \in Watched |->
                  folded(bucket[tf], getCandleTime(clock, tf), price)]
  /\ nquotes' = nquotes + 1
  /\ ohlc' = NoOhlc
  /\ UNCHANGED <<clock, ticks, storeVars, serverVars>>

\* The list GET /ohlc reads: candlesStore[tf] || []
stored(tf) ==
  IF tf \in DOMAIN candlesStore THEN candlesStore[tf] ELSE << >>

\* GET /ohlc?timeframe=..&limit=..; timeframe and limit are what parseInt
\* makes of the two query values, NaN when one is absent or not a number.
\* A request that follows another one at once reads the same lists and is
\* left out.
GetOhlc(timeframe, limit) ==
  /\ variant \in CandleVariants
  /\ ohlc.route # "GET /ohlc"
  /\ ohlc' = LET tf == jsOr(timeframe, Num(1)).n
                  lim == jsOr(limit, Num(MAX_CANDLES)).n
              IN  [NoOhlc EXCEPT !.route = "GET /ohlc", !.status = 200,
                                 !.timeframe = timeframe, !.limit = limit,
                                 !.candles = slice(stored(tf), -lim)]
  /\ UNCHANGED <<clock, ticks, storeVars, serverVars, candleVars>>

\* POST /ohlc/update?timeframe=.. with a candle as the body: part_002 stores
\* the candle, the first server of server.js answers ok and stores nothing.
\* The key is req.query.timeframe || 1 on the text of the query value, which
\* is truthy whenever it is present, "0" included; timeframe is the number
\* that text spells, undefined when the query has none.
PostOhlcUpdate(timeframe, candle) ==
  /\ variant \in {"p2", "srvA"}
  /\ nquotes < MaxQuotes
  /\ nquotes' = nquotes + 1
  /\ IF variant = "p2" /\ (candle = NoCandle \/ candle.time = 0)
     THEN /\ ohlc' = [NoOhlc EXCEPT !.route = "POST /ohlc/update",
                                    !.status = 400, !.timeframe = timeframe,
                                    !.body = candle]
          /\ UNCHANGED candlesStore
     ELSE /\ ohlc' = [NoOhlc EXCEPT !.route = "POST /ohlc/update",
                                    !.status = 200, !.timeframe = timeframe,
                                    !.body = candle]
          /\ candlesStore' =
               IF variant = "p2"
               THEN LET tf == IF timeframe = undefined THEN 1
                                   ELSE timeframe.n
                    IN  [candlesStore EXCEPT
                           ![tf] = capped(Append(candlesStore[tf], candle))]
               ELSE candlesStore
  /\ UNCHANGED <<clock, ticks, storeVars, serverVars, currentCandle, bucket>>

OhlcQueries ==
  {<<Num(1), NaN>>, <<Num(1), Num(0)>>, <<Num(1), Num(1)>>,
   <<Num(7), Num(1)>>, <<Num(0), Num(1)>>, <<NaN, Num(2)>>}

PostTimeframes == {undefined, Num(7), Num(0)}

PostedCandles ==
  {NoCandle} \cup {Candle(time, 100) : time \in {0, 60 * MAX_CANDLES}}

NextCandle ==
  \/ \E d \in CandleDeltas : ticks < MaxElapse /\ Tick(d)
  \/ \E price \in CandlePrices : CandleUpdate(price)
  \/ \E q \in OhlcQueries : GetOhlc(q[1], q[2])
  \/ \E timeframe \in PostTimeframes, candle \in PostedCandles :
       PostOhlcUpdate(timeframe, candle)

SpecCandle ==
  InitCandle /\ [][NextCandle]_vars

\* The steps that write the candle lists.
NextFull ==
  \/ \E d \in CandleDeltas : ticks < MaxElapse /\ Tick(d)
  \/ \E price \in CandlePrices : CandleUpdate(price)
  \/ \E timeframe \in PostTimeframes, candle \in PostedCandles :
       PostOhlcUpdate(timeframe, candle)

SpecFull ==
  InitFull /\ [][NextFull]_vars

(***************************************************************************)
(* Claims about the Price Store, checked under SpecStore.                  *)
(***************************************************************************)

\* C1: after any sequence of push-and-evict calls at non-decreasing clock
\* values, every retained observation is at most 5000 ms older than the clock
\* value of the most recent push.
C1_WindowInvariant ==
  \A i \in 1..Len(history) : lastNow - history[i].t <= TWAP_WINDOW_MS

\* A push has evicted an old observation and kept a younger one.
C1_Witness ==
  /\ ret.op = "store"
  /\ npush = 3
  /\ Len(history) = 2
  /\ history[1].t < lastNow

\* C2: a value pushed at t0, no further push, then an average taken more
\* than 5000 ms later: the claim expects the empty-window fallback.
C2_ExpiryOnRead ==
  (ret.op = "twap" /\ npush > 0 /\ clock - lastNow > TWAP_WINDOW_MS)
    => ret.c = ret.arg

\* Sum of the retained values (all integers under SpecStore).
SumOfValues(h) ==
  LET f[i \in 0..Len(h)] == IF i = 0 THEN 0 ELSE f[i - 1] + h[i].v.n
  IN  f[Len(h)]

ValuesOf(h) ==
  [i \in 1..Len(h) |-> h[i].v.n]

IsMeanOf(x, h) ==
  /\ x.k = "num"
  /\ x.n * Len(h) = x.d * SumOfValues(h)

\* C3: on a non-empty store twap is the sum of the retained values divided
\* by their count, whatever the timestamps; values 10, 20, 30 give 20.
C3_ArithmeticMean ==
  (ret.op = "twap" /\ Len(history) > 0) =>
    /\ IsMeanOf(ret.c, history)
    /\ IsMeanOf(ret.v3, history)
    /\ IsMeanOf(ret.nul, history)
    /\ (ValuesOf(history) = <<10, 20, 30>> => ret.c = Num(20))

\* The values 10, 20, 30 at unevenly spaced timestamps average to 20.
C3_Witness ==
  /\ ret.op = "twap"
  /\ ValuesOf(history) = <<10, 20, 30>>
  /\ history[2].t - history[1].t # history[3].t - history[2].t
  /\ ret.c = Num(20)

Kept(S, now) ==
  {i \in 1..Len(S) : ~(now - S[i].t > TWAP_WINDOW_MS)}

NthKept(S, now, j) ==
  CHOOSE i \in Kept(S, now) :
    Cardinality({k \in Kept(S, now) : k <= i}) = j

\* C5: the store after a push is the old content followed by {now, v}, with
\* exactly the elements older than 5000 ms removed and the order of the rest
\* kept; an observation with the timestamp of another is kept beside it.
C5_AppendThenFilter ==
  [][npush' # npush =>
       LET S == Append(history, [t |-> clock, v |-> ret'.arg])
       IN  /\ Len(history') = Cardinality(Kept(S, clock))
           /\ \A j \in 1..Len(history') : history'[j] = S[NthKept(S, clock, j)]
    ]_vars

\* One push evicted the oldest observation and kept one that carries the
\* same timestamp as the new observation.
C5_Witness ==
  /\ ret.op = "store"
  /\ npush = 3
  /\ Len(history) = 2
  /\ history[1].t = history[2].t

(***************************************************************************)
(* Claims about the /latest.json handlers, checked under SpecServer.       *)
(***************************************************************************)

\* The observations of S that are at most 5000 ms older than clock value now
Retained(S, now) ==
  [j \in 1..Cardinality(Kept(S, now)) |-> S[NthKept(S, now, j)]]

\* What store i must hold: every observation ever pushed into it that is
\* inside the window of its latest push, once each, in the order of the pushes.
LogWindow(i) ==
  IF Len(log[i]) = 0 THEN << >>
  ELSE Retained(log[i], log[i][Len(log[i])].t)

C6_NothingLostOrDoubled ==
  /\ goldHistory = LogWindow("gold")
  /\ \A c \in FX : fxHistory[c] = LogWindow(c)

\* The step in which a request publishes its quote: the gold store ends with
\* the observation of that request and the published average is the mean of
\* that store.
C6_ReadsOwnPush ==
  \A r \in Requests :
    (pc[r] # "done" /\ pc'[r] = "done" /\ outcome'.resp.body = "quote"
       /\ variant # "p2") =>
      /\ Len(goldHistory') > 0
      /\ goldHistory'[Len(goldHistory')].t = clock
      /\ variant \notin SimVariants =>
           goldHistory'[Len(goldHistory')].v = gold[r]
      /\ (\A i \in 1..Len(goldHistory') : goldHistory'[i].v.k = "num")
           => IsMeanOf(outcome'.resp.gold_usd_per_oz_twap, goldHistory')

\* C6: whatever the interleaving of concurrent /latest.json requests at their
\* awaits, the push, the evict and the average of one cycle are one step on
\* each store: no observation inside the window is lost or held twice, and
\* the average a cycle publishes is taken over the store as its own push
\* left it.
C6_AtomicCycles ==
  /\ []C6_NothingLostOrDoubled
  /\ [][C6_ReadsOwnPush]_vars

\* Two requests of the "v1 locked" server were in flight together: the
\* first began first, the second pushed while the first was waiting for its
\* feeds, and the first has now pushed and published over both observations.
C6_Witness ==
  /\ variant = "srvC"
  /\ \A r \in {1, 2} : pc[r] = "done"
  /\ outcome.r = 1
  /\ outcome.resp.body = "quote"
  /\ outcome.pushed = Instruments
  /\ Len(log["gold"]) = 2
  /\ Len(goldHistory) = 2

\* The cycle that has just finished ended in failure.
Failed ==
  /\ outcome.r # 0
  /\ outcome.resp.body # "quote"

\* C7: a cycle that ends in failure has modified no Price Store and no
\* candle; in particular gold is never pushed while the currencies are not.
\* Stated for the server the claim cites (safeFetchJSON, zero quote on
\* failure).
C7_FailsAtomically ==
  variant = "srvB" =>
    (Failed => (outcome.pushed = {} /\ outcome.fed = {}))

\* C8: a failed cycle is always answered with status 200.  Stated for the
\* servers the claim cites.
C8_Always200 ==
  variant \in {"srvA", "p1", "s3sim"} =>
    (Failed => outcome.resp.status = 200)

\* C9: no request is left without a response, also when a feed never answers
\* or its call rejects.  Stated for the servers the claim cites.
C9_NoHungConnection ==
  variant \in {"p2", "srvB"} =>
    /\ \A r \in Requests : pc[r] # "hung"
    /\ outcome.r # 0 => outcome.resp.status # 0

\* C10: when a feed call fails, the cycle still pushes an observation for
\* every instrument and publishes a quote with status 200.  Stated for the
\* servers the claim cites.
C10_FeedFailureAbsorbed ==
  variant \in {"srvA", "srvC", "s3lkg"} =>
    /\ \A r \in Requests : ~(feedFailed[r] /\ pc[r] = "hung")
    /\ (outcome.r # 0 /\ outcome.feedFailed) =>
         /\ outcome.resp.status = 200
         /\ outcome.resp.body = "quote"
         /\ outcome.pushed = Instruments

(***************************************************************************)
(* Claims about the feed values and the Basket Composer, checked under     *)
(* SpecCycle.                                                              *)
(***************************************************************************)

\* A cycle has just published a Unit Quote.
Published ==
  /\ outcome.r # 0
  /\ outcome.resp.body = "quote"

\* C11: every value held in the gold store and in the five FX stores is a
\* defined finite number, whatever the feeds answer, also a rates map that
\* lacks a currency or holds a zero rate.  Stated for the servers the claim
\* cites.
C11_UsableScalars ==
  variant \in {"srvB", "srvC"} =>
    /\ \A i \in 1..Len(goldHistory) : IsNumber(goldHistory[i].v)
    /\ \A c \in FX : \A i \in 1..Len(fxHistory[c]) : IsNumber(fxHistory[c][i].v)

\* The currencies whose rate in the map is missing, zero or not a number
Degraded(rates) ==
  {c \in FX : ~(IsNumber(rates[c]) /\ rates[c].n > 0)}

\* C12: when the rate of one currency is missing, zero or non-numeric the
\* cycle does not throw, the quote is published, unit_usd is a number and so
\* is the fx_usd_twap field of every other currency.  Stated for the servers
\* the claim cites.
C12_DegradedLegOnly ==
  variant \in {"srvA", "s3sim", "p2"} =>
    ((outcome.r # 0 /\ Cardinality(Degraded(outcome.fxRates)) = 1) =>
       /\ outcome.resp.body = "quote"
       /\ PriceIsNumber(UnitQuote.unit_usd)
       /\ variant # "p2" =>
            \A c \in FX \ Degraded(outcome.fxRates) :
              IsNumber(UnitQuote.fx_usd_twap[c]))

\* Rates maps a cycle can be supplied with
AltRates ==
  {LiveRates, DefaultRates} \cup DegradedRates

\* The FX stores as the cycle that has just pushed would have left them had
\* it been supplied with the rates map alt.
WithRates(alt) ==
  [c \in FX |->
     [fxHistory[c] EXCEPT ![Len(fxHistory[c])].v = fxValue(variant, alt[c])]]

\* C13: the unit_usd a cycle publishes is the one it would have published
\* with any other rates map, the gold average being the same.  Stated for the
\* servers the claim cites.
C13_FXIndependent ==
  variant \in {"srvA", "srvC", "p1"} =>
    ((Published /\ outcome.pushed = Instruments) =>
       \A alt \in AltRates :
         QuoteOf(variant, goldHistory, WithRates(alt), outcome.spot,
                 alt).unit_usd = UnitQuote.unit_usd)

\* The gold average of the quote is a positive number.
PositiveGold ==
  /\ IsNumber(UnitQuote.gold_usd_per_oz_twap)
  /\ UnitQuote.gold_usd_per_oz_twap.n > 0

\* C14: unit_usd = (0.9823 / 31.1034768) * goldTWAP / 0.40 and
\* hundred_units_usd = unit_usd * 100, for every positive gold average.
\* Stated for the servers the claim cites.
C14_PublishedFormula ==
  variant \in {"srvC", "p0"} =>
    ((Published /\ PositiveGold) =>
       /\ UnitQuote.unit_usd =
            Price(jsDiv(UnitQuote.gold_usd_per_oz_twap, GOLD_WEIGHT), Num(0))
       /\ UnitQuote.hundred_units_usd =
            priceMul(UnitQuote.unit_usd, Num(100)))

\* C15: unitUSD * GOLD_WEIGHT is the gold leg value of the same cycle, for
\* every positive gold average.  Stated for the servers the claim cites.
C15_GoldWeight ==
  variant \in {"s3sim", "srvC"} =>
    ((Published /\ PositiveGold) =>
       priceMul(UnitQuote.unit_usd, GOLD_WEIGHT) = UnitQuote.composed.goldUSD)

\* C16: the five FX legs sum to unitUSD * (1 - GOLD_WEIGHT), each leg being
\* unitUSD * 0.12.  Stated for the servers the claim cites.
C16_FXWeight ==
  variant \in {"s3sim", "srvC", "srvA"} =>
    ((Published /\ PositiveGold) =>
       /\ UnitQuote.composed.fxUSD =
            priceMul(UnitQuote.unit_usd,
                     jsAdd(Num(1), jsMul(Num(-1), GOLD_WEIGHT)))
       /\ \A c \in DOMAIN UnitQuote.composed.fxLegs :
            UnitQuote.composed.fxLegs[c] =
              priceMul(UnitQuote.unit_usd, FX_WEIGHT))

(***************************************************************************)
(* Claims about the candle engine and GET /ohlc, checked under SpecCandle; *)
(* the cap is checked under SpecFull.                                      *)
(***************************************************************************)

RECURSIVE SeqMax(_, _)
SeqMax(p, i) ==
  IF i = 1 THEN p[1]
  ELSE LET m == SeqMax(p, i - 1) IN IF p[i] > m THEN p[i] ELSE m

RECURSIVE SeqMin(_, _)
SeqMin(p, i) ==
  IF i = 1 THEN p[1]
  ELSE LET m == SeqMin(p, i - 1) IN IF p[i] < m THEN p[i] ELSE m

\* The candle the prices delivered in the open bucket of tf fold into.
FoldedCandle(tf) ==
  LET p == bucket[tf].prices
  IN  [time |-> bucket[tf].time, open |-> p[1], high |-> SeqMax(p, Len(p)),
       low |-> SeqMin(p, Len(p)), close |-> p[Len(p)]]

\* Prices were delivered for tf in the bucket the clock is in.
InBucket(tf) ==
  /\ bucket[tf].prices # << >>
  /\ bucket[tf].time = getCandleTime(clock, tf)

\* The folding alone: the open candle of the bucket is the fold of its
\* prices, and no closed candle carries the time of the bucket.
FoldedOnce ==
  \A tf \in Watched :
    InBucket(tf) =>
      /\ currentCandle[tf] = FoldedCandle(tf)
      /\ \A i \in 1..Len(candlesStore[tf]) :
           candlesStore[tf][i].time # bucket[tf].time

\* C17: while the clock stays inside the bucket the prices p1..pk of a
\* timeframe were delivered in, exactly one candle exists for the bucket, with
\* open p1, high max(p1..pk), low min(p1..pk) and close pk, and a GET /ohlc
\* for the timeframe that asks for no limit reports that candle.
C17_FoldedAndReported ==
  /\ FoldedOnce
  /\ \A tf \in Watched :
       (/\ InBucket(tf)
        /\ ohlc.route = "GET /ohlc"
        /\ ohlc.timeframe = Num(tf)
        /\ ohlc.limit = NaN)
       => \E i \in 1..Len(ohlc.candles) : ohlc.candles[i] = FoldedCandle(tf)

\* The newest n entries of a list, in their order.
NewestN(list, n) ==
  LET k == IF n < Len(list) THEN n ELSE Len(list)
  IN  [i \in 1..k |-> list[Len(list) - k + i]]

\* This step closes the open candle of tf: another one is open after it.
Rolled(tf) ==
  /\ variant \in EngineVariants
  /\ tf \in tfList
  /\ currentCandle[tf] # NoCandle
  /\ currentCandle'[tf].time # currentCandle[tf].time

\* This step is a POST /ohlc/update that part_002 accepted for tf.
Posted(tf) ==
  /\ variant = "p2"
  /\ ohlc'.route = "POST /ohlc/update"
  /\ ohlc'.status = 200
  /\ tf = (IF ohlc'.timeframe = undefined THEN 1 ELSE ohlc'.timeframe.n)

\* C18: every step leaves at most MAX_CANDLES candles in the list of every
\* timeframe; a step that closes the open candle of a timeframe, or posts a
\* candle for it, leaves the newest MAX_CANDLES of the old list followed by
\* that candle, in order, so what is dropped is the oldest; any other step
\* leaves the list as it was.
C18_CandleCap ==
  [][\A tf \in Timeframes :
       /\ Len(candlesStore'[tf]) <= MAX_CANDLES
       /\ Rolled(tf) =>
            candlesStore'[tf] =
              NewestN(Append(candlesStore[tf], currentCandle[tf]), MAX_CANDLES)
       /\ Posted(tf) =>
            candlesStore'[tf] =
              NewestN(Append(candlesStore[tf], ohlc'.body), MAX_CANDLES)
       /\ ~Rolled(tf) /\ ~Posted(tf) => candlesStore'[tf] = candlesStore[tf]
    ]_vars

\* A full list has taken one more candle: the candle of time 0 is gone, the
\* list still holds MAX_CANDLES candles and ends with the one just pushed.
C18_Witness ==
  /\ nquotes > 0
  /\ Len(candlesStore[1]) = MAX_CANDLES
  /\ candlesStore[1][1].time = 60
  /\ candlesStore[1][MAX_CANDLES].time = 60 * MAX_CANDLES

\* C19: a GET /ohlc that names a timeframe tf and a limit n >= 0 is answered
\* the last n candles stored for tf, oldest first, and no more than n; for a
\* timeframe no list is kept for that is the empty list.
C19_LastN ==
  (/\ ohlc.route = "GET /ohlc"
   /\ IsNumber(ohlc.timeframe)
   /\ IsNumber(ohlc.limit))
  => /\ Len(ohlc.candles) <= ohlc.limit.n
     /\ ohlc.candles = NewestN(stored(ohlc.timeframe.n), ohlc.limit.n)

(***************************************************************************)
(* Claim about the order of the Price Stores, checked under SpecServer.    *)
(***************************************************************************)

NonDecreasing(h) ==
  \A i \in 1..(Len(h) - 1) : h[i].t <= h[i + 1].t

\* h is what is left of l after a prefix of l was dropped.
SuffixOf(h, l) ==
  /\ Len(h) <= Len(l)
  /\ h = SubSeq(l, Len(l) - Len(h) + 1, Len(l))

\* C20: in every reachable state the timestamps of each Price Store are
\* non-decreasing from first to last, and each store is what is left of the
\* sequence of all its pushes after a prefix of it was dropped.
C20_TimeOrder ==
  /\ NonDecreasing(goldHistory)
  /\ NonDecreasing(priceHistory)
  /\ SuffixOf(goldHistory, log["gold"])
  /\ \A c \in FX :
       /\ NonDecreasing(fxHistory[c])
       /\ SuffixOf(fxHistory[c], log[c])

\* Two requests were in flight together and the clock moved between their
\* pushes: the second request pushed first, the first request has just
\* pushed, and the store holds both observations.
C20_Witness ==
  /\ variant \in AsyncVariants
  /\ pc[2] = "done"
  /\ outcome.r = 1
  /\ outcome.pushed = Instruments
  /\ Len(goldHistory) = 2
  /\ goldHistory[1].t < goldHistory[2].t
  /\ Len(fxHistory["ZAR"]) = 2

(***************************************************************************)
(* Claims about the read that follows a push, and about the last known     *)
(* good values, checked under SpecServer.                                  *)
(***************************************************************************)

StoreOf(i) ==
  IF i = "gold" THEN goldHistory ELSE fxHistory[i]

\* The store was pushed to in the step just taken: it is not empty and ends
\* with the observation of that push.
EndsWithPush(h) ==
  /\ h # << >>
  /\ h[Len(h)].t = clock

\* C21: after every push-and-evict the store is non-empty and its last
\* element is the observation just pushed, and a cycle that publishes a quote
\* has pushed to every store it averages, so no average of a cycle is taken
\* over an empty store.
C21_ReadAfterPush ==
  /\ \A i \in outcome.pushed :
       /\ EndsWithPush(StoreOf(i))
       /\ StoreOf(i)[Len(StoreOf(i))] = log[i][Len(log[i])]
  /\ (outcome.r # 0 /\ outcome.resp.body = "quote") =>
       IF variant = "p2"
       THEN EndsWithPush(priceHistory)
       ELSE /\ outcome.pushed = Instruments
            /\ outcome.resp.gold_usd_per_oz_twap.k # "null"
            /\ (\A j \in 1..Len(goldHistory) : IsNumber(goldHistory[j].v))
                 => IsMeanOf(outcome.resp.gold_usd_per_oz_twap, goldHistory)

\* A cycle pushed more than a window after the push before it: the eviction
\* has left the store with the one observation just pushed, and the average
\* published is that observation.
C21_Witness ==
  /\ outcome.r # 0
  /\ outcome.resp.body = "quote"
  /\ outcome.pushed = Instruments
  /\ Len(log["gold"]) = 2
  /\ Len(goldHistory) = 1
  /\ goldHistory[1].t = clock
  /\ outcome.resp.gold_usd_per_oz_twap = goldHistory[1].v

\* What the feeds hand out on success.
FedGold == {Num(g) : g \in GoldQuotes}

FedRates == {reply.rates : reply \in {q \in CycleFXReplies : ~Failure(q)}}

\* One step of the last-known-good server.  getGold has returned when the
\* handler moves on to the FX fetch, getFX when it finishes; feedFailed tells
\* whether a fetch of the request failed.
C22_Tracks ==
  IF variant # "s3lkg" THEN LAST_GOOD' = LAST_GOOD
  ELSE \A r \in Requests :
    /\ (pc[r] = "gold" /\ pc'[r] = "fx") =>
         /\ LAST_GOOD'.fx = LAST_GOOD.fx
         /\ gold'[r] = LAST_GOOD'.gold
         /\ IF feedFailed'[r]
            THEN LAST_GOOD' = LAST_GOOD
            ELSE gold'[r] \in FedGold
    /\ (pc[r] = "fx" /\ pc'[r] = "done") =>
         /\ LAST_GOOD'.gold = LAST_GOOD.gold
         /\ outcome'.fxRates = LAST_GOOD'.fx
         /\ LAST_GOOD'.fx # LAST_GOOD.fx => LAST_GOOD'.fx \in FedRates
         /\ ~feedFailed[r] =>
              IF outcome'.feedFailed
              THEN LAST_GOOD' = LAST_GOOD
              ELSE outcome'.fxRates \in FedRates
    /\ (\A q \in Requests : ~(pc[q] = "gold" /\ pc'[q] = "fx")
                            /\ ~(pc[q] = "fx" /\ pc'[q] = "done"))
         => LAST_GOOD' = LAST_GOOD

Delivered ==
  bucket'[1].prices[Len(bucket'[1].prices)]

\* The closed candles of tf are in strictly increasing order of time, each
\* time a multiple of tf * 60 seconds, and the open candle is later than all.
InTimeOrder(tf) ==
  /\ \A i \in 1..Len(candlesStore[tf]) :
       /\ candlesStore[tf][i].time % (tf * 60) = 0
       /\ i > 1 => candlesStore[tf][i - 1].time < candlesStore[tf][i].time
  /\ currentCandle[tf] # NoCandle =>
       /\ currentCandle[tf].time % (tf * 60) = 0
       /\ candlesStore[tf] # << >> =>
            candlesStore[tf][Len(candlesStore[tf])].time
              < currentCandle[tf].time

\* updateCandle is called for tf at a clock value in another bucket than the
\* one of the open candle: the open candle goes to the end of the list, once,
\* and a candle of the one price is opened at the start of the bucket.
C23_Rolls ==
  \A tf \in tfList :
    (/\ variant \in EngineVariants
     /\ bucket' # bucket
     /\ currentCandle[tf] # NoCandle
     /\ currentCandle[tf].time # getCandleTime(clock, tf)) =>
      /\ candlesStore'[tf] =
           NewestN(Append(candlesStore[tf], currentCandle[tf]), MAX_CANDLES)
      /\ Cardinality({i \in 1..Len(candlesStore'[tf]) :
                        candlesStore'[tf][i].time = currentCandle[tf].time}) = 1
      /\ currentCandle'[tf] =
           [time |-> ((clock \div (tf * 60)) \div 1000) * tf * 60,
            open |-> Delivered, high |-> Delivered, low |-> Delivered,
            close |-> Delivered]

WellFormed(c) ==
  /\ c.low <= c.open /\ c.open <= c.high
  /\ c.low <= c.close /\ c.close <= c.high

\* C24: every open candle and every closed candle that updateCandle built
\* from numeric prices has low <= open <= high and low <= close <= high.
C24_WellFormed ==
  variant \in EngineVariants =>
    \A tf \in tfList :
      /\ currentCandle[tf] # NoCandle => WellFormed(currentCandle[tf])
      /\ \A i \in 1..Len(candlesStore[tf]) : WellFormed(candlesStore[tf][i])

\* A candle that fell below its open was closed by a quote of the next
\* minute, and the fifteen-minute candle has gone below and above its open.
C24_Witness ==
  /\ variant \in EngineVariants
  /\ candlesStore[1] # << >>
  /\ LET c == candlesStore[1][Len(candlesStore[1])]
     IN  c.low < c.open /\ c.open = c.high /\ c.close = c.low
  /\ currentCandle[1].high = currentCandle[1].low
  /\ currentCandle[15].low < currentCandle[15].open
  /\ currentCandle[15].open < currentCandle[15].high
  /\ currentCandle[15].close = currentCandle[15].high

\* The price of the most recent call of the candle engine.
LastPrice ==
  bucket[1].prices[Len(bucket[1].prices)]

\* C25: once a price has been delivered, the open candle of each of the nine
\* timeframes closes at the price of the most recent successful cycle.
C25_SamePrice ==
  (variant \in EngineVariants /\ bucket[1].prices # << >>) =>
    /\ tfList = {1, 15, 30, 60, 180, 1440, 4320, 10080, 43200}
    /\ \A tf \in tfList :
         /\ currentCandle[tf] # NoCandle
         /\ currentCandle[tf].close = LastPrice

\* Two cycles succeeded in two minutes of one quarter of an hour: the
\* one-minute candle opened at the second price, the longer ones opened at the
\* first, and all nine close at the second.
C25_Witness ==
  /\ variant \in EngineVariants
  /\ nquotes = 2
  /\ bucket[1].prices # << >>
  /\ LastPrice = 98
  /\ currentCandle[1].open = 98
  /\ \A tf \in tfList \ {1} :
       currentCandle[tf].open = 105 /\ currentCandle[tf].close = 98

\* The timeframe a request names, 1 when it names none.
Requested(timeframe) ==
  IF IsNumber(timeframe) THEN timeframe.n ELSE 1

\* A POST /ohlc/update of part_002: without a candle that has a time it is
\* answered 400 and changes no list; with a candle of a later time it is
\* answered 200 and the candle is at the end of the list of the timeframe
\* requested, the other lists being as they were.
C26_Posts ==
  (variant = "p2" /\ ohlc'.route = "POST /ohlc/update") =>
    /\ ohlc'.body = NoCandle =>
         ohlc'.status = 400 /\ candlesStore' = candlesStore
    /\ (ohlc'.body # NoCandle /\ ohlc'.body.time > 0) =>
         /\ ohlc'.status = 200
         /\ candlesStore' =
              [candlesStore EXCEPT
                 ![Requested(ohlc'.timeframe)] =
                   NewestN(Append(candlesStore[Requested(ohlc'.timeframe)],
                                  ohlc'.body), MAX_CANDLES)]

\* A GET /ohlc of part_002 returns the candle last appended to the list of
\* the timeframe it names.
C26_Returned ==
  (/\ variant = "p2"
   /\ ohlc.route = "GET /ohlc"
   /\ candlesStore[Requested(ohlc.timeframe)] # << >>) =>
    LET list == candlesStore[Requested(ohlc.timeframe)]
    IN  \E i \in 1..Len(ohlc.candles) : ohlc.candles[i] = list[Len(list)]

\* C26: POST /ohlc/update rejects a body that is missing or has no time with
\* status 400 and leaves the candle store unchanged; a valid candle is
\* appended to the list of the requested timeframe (default 1) and is then
\* returned by GET /ohlc for that same timeframe.
C26_PostThenGet ==
  /\ [][C26_Posts]_vars
  /\ []C26_Returned


====
